---- MODULE Spec2Model ----
(***************************************************************************)
(* Model of business_filter.py: the keyword classifier is_truck_relevant,  *)
(* the name functions clean_name and normalize_for_matching, and the two   *)
(* chunked DataFrame passes filter_truck_businesses and                    *)
(* clean_business_names.                                                   *)
(*                                                                         *)
(* A text is a sequence of characters; a character is a one-character      *)
(* string, except the two code points the ASCII character set cannot       *)
(* write: "U0130" (LATIN CAPITAL LETTER I WITH DOT ABOVE) and "U0307"      *)
(* (COMBINING DOT ABOVE).  A cell of the business_name column is           *)
(* [kind |-> "str", chars |-> text] or the non-text value None.            *)
(* confidence is kept in hundredths (0.9 is 90).                           *)
(***************************************************************************)
EXTENDS Integers, Sequences, FiniteSets, TLC

VARIABLES
    arg,        \* the argument of the name function under check
    ret,        \* its result
    ret2,       \* clean_name applied to that result
    input,      \* the DataFrame the caller passes in
    prog,       \* what the caller runs: the pipeline, or the cleaning alone
    mode,       \* the chunk-size configuration of the current run
    pc,         \* position in the running function
    df,         \* the local df of the running function
    start,      \* the chunk loop's variable
    parts,      \* mask_parts / us_mask_parts / cleaned_parts
    fres,       \* per configuration, how filter_truck_businesses ended
    cres        \* per configuration, how clean_business_names ended

vars == <<arg, ret, ret2, input, prog, mode, pc, df, start, parts, fres, cres>>

textVars == <<arg, ret, ret2>>
frameVars == <<input, prog, mode, pc, df, start, parts, fres, cres>>

(***************************************************************************)
(* Bounds of the checked inputs.                                           *)
(***************************************************************************)
MaxWords == 3
MaxLen == 4
MaxSuffixes == 3
MaxRecords == 2

(***************************************************************************)
(* Program constants.  CONFIDENCE_THRESHOLD is 0.9, in hundredths.         *)
(***************************************************************************)
CONFIDENCE_THRESHOLD == 90

TRUCK_KEYWORDS ==
    << <<"t", "r", "u", "c", "k">>, <<"t", "r", "u", "c", "k", "s">>, <<"t", "r", "u", "c", "k", "i", "n", "g">>,
       <<"t", "r", "a", "i", "l", "e", "r">>, <<"t", "r", "a", "i", "l", "e", "r", "s">>, <<"f", "r", "e", "i", "g", "h", "t">>,
       <<"l", "o", "g", "i", "s", "t", "i", "c", "s">>, <<"t", "r", "a", "n", "s", "p", "o", "r", "t">>, <<"t", "r", "a", "n", "s", "p", "o", "r", "t", "a", "t", "i", "o", "n">>,
       <<"l", "t", "l">>, <<"h", "a", "u", "l", "i", "n", "g">>, <<"h", "a", "u", "l">>,
       <<"e", "x", "c", "a", "v", "a", "t", "i", "o", "n">>, <<"e", "x", "c", "a", "v", "a", "t", "i", "n", "g">>, <<"c", "o", "n", "s", "t", "r", "u", "c", "t", "i", "o", "n">>,
       <<"g", "r", "a", "d", "i", "n", "g">>, <<"s", "i", "t", "e", "w", "o", "r", "k">>, <<"a", "g", "g", "r", "e", "g", "a", "t", "e", "s">>,
       <<"p", "a", "v", "i", "n", "g">>, <<"a", "s", "p", "h", "a", "l", "t">>, <<"c", "o", "n", "c", "r", "e", "t", "e">>,
       <<"d", "i", "e", "s", "e", "l">>, <<"r", "e", "p", "a", "i", "r">>, <<"t", "o", "w">>,
       <<"t", "o", "w", "i", "n", "g">>, <<"t", "o", "w", "s">>, <<"e", "q", "u", "i", "p", "m", "e", "n", "t">>,
       <<"r", "e", "n", "t", "a", "l">> >>

EXCLUDE_KEYWORDS ==
    << <<"a", "c", "c", "e", "s", "s", "o", "r", "i", "e", "s">>, <<"a", "p", "a", "r", "t", "m", "e", "n", "t">>, <<"b", "a", "n", "k">>,
       <<"b", "u", "d", "g", "e", "t">>, <<"c", "a", "r">>, <<"c", "a", "r", "e">>,
       <<"c", "e", "l", "l", "p", "h", "o", "n", "e">>, <<"c", "e", "l", "l", "p", "h", "o", "n", "e", "s">>, <<"c", "l", "e", "a", "n", "e", "r", "s">>,
       <<"c", "l", "e", "a", "n", "i", "n", "g">>, <<"f", "u", "r", "n", "i", "t", "u", "r", "e">>, <<"h", "o", "m", "e", "s">>,
       <<"h", "o", "m", "e">>, <<"h", "o", "s", "p", "i", "t", "a", "l">>, <<"i", "c", "e">>,
       <<"j", "e", "w", "e", "l", "r", "y">>, <<"l", "u", "x", "u", "r", "y">>, <<"m", "a", "t", "t", "r", "e", "s", "s">>,
       <<"m", "o", "v", "i", "n", "g">>, <<"p", "a", "r", "t", "y">>, <<"p", "h", "o", "n", "e">>,
       <<"p", "h", "o", "n", "e", "s">>, <<"p", "i", "a", "n", "o">>, <<"p", "i", "a", "n", "o", "s">>,
       <<"p", "l", "u", "m", "b", "e", "r">>, <<"r", "e", "s", "t", "a", "u", "r", "a", "n", "t">>, <<"r", "u", "g">>,
       <<"r", "u", "g", "s">>, <<"r", "v">>, <<"s", "a", "l", "o", "n">>,
       <<"s", "c", "h", "o", "o", "l">>, <<"s", "h", "o", "e">>, <<"s", "h", "o", "e", "s">>,
       <<"s", "t", "o", "r", "a", "g", "e">>, <<"v", "a", "c", "a", "t", "i", "o", "n">>, <<"w", "a", "t", "c", "h">>,
       <<"w", "a", "t", "c", "h", "e", "s">>, <<"e", "y", "e", "g", "l", "a", "s", "s">>, <<"e", "y", "e", "g", "l", "a", "s", "s", "e", "s">>,
       <<"w", "o", "o", "d", "w", "i", "n", "d">>, <<"w", "o", "o", "d", "w", "i", "n", "d", "s">>, <<"a", "d", "v", "a", "n", "c", "e">>,
       <<"a", "u", "t", "o">>, <<"a", "u", "t", "o", "z", "o", "n", "e">>, <<"a", "u", "t", "o", "m", "o", "t", "i", "v", "e">>,
       <<"b", "o", "d", "y">>, <<"c", "o", "l", "l", "i", "s", "i", "o", "n">>, <<"c", "o", "m", "p", "u", "t", "e", "r">>,
       <<"d", "e", "t", "a", "i", "l", "i", "n", "g">>, <<"f", "i", "r", "e", "s", "t", "o", "n", "e">>, <<"f", "o", "r", "d">>,
       <<"g", "l", "a", "s", "s">>, <<"m", "a", "z", "d", "a">>, <<"m", "e", "d", "i", "c", "a", "l">>,
       <<"m", "o", "t", "o", "r">>, <<"m", "o", "t", "o", "r", "s">>, <<"n", "a", "p", "a">>,
       <<"o", "r", "e", "i", "l", "l", "y">>, <<"p", "e", "n", "s", "k", "e">>, <<"s", "h", "o", "p">>,
       <<"t", "i", "r", "e">>, <<"t", "o", "o", "l", "s">>, <<"t", "o", "y", "o", "t", "a">>,
       <<"w", "a", "s", "h">>, <<"c", "h", "u", "r", "c", "h">>, <<"c", "i", "t", "y", " ", "o", "f">>,
       <<"c", "o", "u", "n", "t", "y">>, <<"d", "e", "p", "a", "r", "t", "m", "e", "n", "t">>, <<"p", "a", "r", "k">>,
       <<"t", "o", "w", "n">>, <<"t", "o", "w", "n", " ", "o", "f">>, <<"t", "o", "w", "n", "s", "h", "i", "p">>,
       <<"t", "o", "w", "e", "r">>, <<"t", "o", "w", "n", "e">>, <<"c", "o", "n", "s", "u", "l", "t", "a", "n", "t", "s">>,
       <<"c", "r", "e", "d", "i", "t">>, <<"d", "r", "e", "a", "m">>, <<"e", "l", "e", "c", "t", "r", "i", "c", "i", "a", "n">>,
       <<"e", "m", "i", "s", "s", "i", "o", "n", "s">>, <<"e", "v", "e", "n", "t">>, <<"h", "a", "n", "d", "y", "m", "a", "n">>,
       <<"h", "v", "a", "c">>, <<"p", "c">>, <<"t", "r", "a", "i", "n", "i", "n", "g">>,
       <<"w", "i", "r", "e", "l", "e", "s", "s">>, <<"f", "e", "d", "e", "x">>, <<"h", "a", "r", "b", "o", "r">>,
       <<"s", "a", "i", "a">> >>

SUFFIXES ==
    << <<" ", "l", "l", "c">>, <<" ", "i", "n", "c">>, <<" ", "c", "o", "r", "p">>, <<" ", "l", "t", "d">>, <<" ", "c", "o">> >>

(***************************************************************************)
(* Characters, as Python's str methods and the re module class them.       *)
(***************************************************************************)
UpperLetters ==
    <<"A", "B", "C", "D", "E", "F", "G", "H", "I", "J", "K", "L", "M",
      "N", "O", "P", "Q", "R", "S", "T", "U", "V", "W", "X", "Y", "Z">>

LowerLetters ==
    <<"a", "b", "c", "d", "e", "f", "g", "h", "i", "j", "k", "l", "m",
      "n", "o", "p", "q", "r", "s", "t", "u", "v", "w", "x", "y", "z">>

Digits == {"0", "1", "2", "3", "4", "5", "6", "7", "8", "9"}

Range(s) == {s[i] : i \in DOMAIN s}

LetterIndex(letters, c) == CHOOSE i \in DOMAIN letters : letters[i] = c

\* str.isupper / str.islower / "cased" of one character
IsUpperChar(c) == c \in Range(UpperLetters) \/ c = "U0130"

IsLowerChar(c) == c \in Range(LowerLetters)

IsCased(c) == IsUpperChar(c) \/ IsLowerChar(c)

\* \s of the re module, and what str.strip() strips
IsSpace(c) == c \in {" ", "\t", "\n"}

\* the class ["\'] of clean_name
IsQuote(c) == c \in {"\"", "'"}

\* \w of the re module: alphanumeric or underscore (a combining mark is not)
IsWordChar(c) == IsCased(c) \/ c \in Digits \/ c = "_"

\* The full lower-case mapping of one character: U+0130 lowers to the two
\* code points "i" U+0307.
lower_char(c) ==
    IF c \in Range(UpperLetters) THEN <<LowerLetters[LetterIndex(UpperLetters, c)]>>
    ELSE IF c = "U0130" THEN <<"i", "U0307">>
    ELSE <<c>>

\* The title-case mapping of one character.
title_char(c) ==
    IF c \in Range(LowerLetters) THEN <<UpperLetters[LetterIndex(LowerLetters, c)]>>
    ELSE <<c>>

RECURSIVE Flatten(_)
Flatten(ss) == IF ss = <<>> THEN <<>> ELSE Head(ss) \o Flatten(Tail(ss))

\* str.lower()
str_lower(s) == Flatten([i \in DOMAIN s |-> lower_char(s[i])])

\* str.isupper(): no lower-case character and at least one upper-case one
str_isupper(s) ==
    /\ \A i \in DOMAIN s : ~IsLowerChar(s[i])
    /\ \E i \in DOMAIN s : IsUpperChar(s[i])

\* str.title(): a cased character is title-cased when the character before it
\* is not cased, and lower-cased when it is.
str_title(s) ==
    Flatten([i \in DOMAIN s |->
                IF i > 1 /\ IsCased(s[i - 1]) THEN lower_char(s[i])
                ELSE title_char(s[i])])

\* str.strip()
str_strip(s) ==
    LET kept == {i \in DOMAIN s : ~IsSpace(s[i])}
    IN  IF kept = {} THEN <<>>
        ELSE SubSeq(s, CHOOSE i \in kept : \A j \in kept : i <= j,
                       CHOOSE i \in kept : \A j \in kept : j <= i)

\* s.endswith(suffix)
EndsWith(s, suffix) ==
    /\ Len(suffix) <= Len(s)
    /\ SubSeq(s, Len(s) - Len(suffix) + 1, Len(s)) = suffix

\* keyword in s
Contains(s, keyword) ==
    \E i \in 1..(Len(s) - Len(keyword) + 1) :
        SubSeq(s, i, i + Len(keyword) - 1) = keyword

\* re.sub(r'["\']', '', s)
RemoveQuotes(s) ==
    LET NotQuote(c) == ~IsQuote(c) IN SelectSeq(s, NotQuote)

\* re.sub(r'\s+', ' ', s): every maximal run of whitespace becomes one space
CollapseWhitespace(s) ==
    Flatten([i \in DOMAIN s |->
                IF ~IsSpace(s[i]) THEN <<s[i]>>
                ELSE IF i > 1 /\ IsSpace(s[i - 1]) THEN <<>>
                ELSE <<" ">>])

\* re.sub(r'[^\w\s]', ' ', s)
PunctuationToSpace(s) ==
    [i \in DOMAIN s |-> IF IsWordChar(s[i]) \/ IsSpace(s[i]) THEN s[i] ELSE " "]

(***************************************************************************)
(* Cells.                                                                  *)
(***************************************************************************)
Str(s) == [kind |-> "str", chars |-> s]

None == [kind |-> "None", chars |-> <<>>]

IsStr(v) == v.kind = "str"

(***************************************************************************)
(* is_truck_relevant(name)                                                 *)
(***************************************************************************)
\* A variant that looks for the truck keywords first.
is_truck_relevant_InclusionFirst(name) ==
    IF ~IsStr(name) \/ name.chars = <<>> THEN FALSE
    ELSE LET name_lower == str_lower(name.chars)
         IN  IF \E k \in DOMAIN TRUCK_KEYWORDS : Contains(name_lower, TRUCK_KEYWORDS[k])
             THEN TRUE
             ELSE FALSE

is_truck_relevant(name) ==
    IF ~IsStr(name) \/ name.chars = <<>> THEN FALSE
    ELSE LET name_lower == str_lower(name.chars)
         IN  IF \E k \in DOMAIN EXCLUDE_KEYWORDS : Contains(name_lower, EXCLUDE_KEYWORDS[k])
             THEN FALSE
             ELSE \E k \in DOMAIN TRUCK_KEYWORDS : Contains(name_lower, TRUCK_KEYWORDS[k])

(***************************************************************************)
(* clean_name(name)                                                        *)
(***************************************************************************)
\* A variant that leaves the case of the name alone.
clean_name_NoTitle(name) ==
    IF ~IsStr(name) THEN None
    ELSE Str(str_strip(CollapseWhitespace(RemoveQuotes(name.chars))))

clean_name(name) ==
    IF ~IsStr(name) THEN None
    ELSE LET unquoted == RemoveQuotes(name.chars)
             spaced   == CollapseWhitespace(unquoted)
             stripped == str_strip(spaced)
         IN  Str(IF str_isupper(stripped) THEN stripped ELSE str_title(stripped))

(***************************************************************************)
(* normalize_for_matching(name)                                            *)
(***************************************************************************)
\* the loop over the suffix list, from its k-th entry on: every suffix the
\* running name ends with is cut off, in list order
RECURSIVE StripSuffixes(_, _)
StripSuffixes(name, k) ==
    IF k > Len(SUFFIXES) THEN name
    ELSE StripSuffixes(IF EndsWith(name, SUFFIXES[k])
                       THEN SubSeq(name, 1, Len(name) - Len(SUFFIXES[k]))
                       ELSE name,
                       k + 1)

normalize_for_matching(name) ==
    IF ~IsStr(name) \/ name.chars = <<>> THEN <<>>
    ELSE LET lowered  == str_strip(str_lower(name.chars))
             stripped == StripSuffixes(lowered, 1)
             spaced   == PunctuationToSpace(stripped)
         IN  str_strip(CollapseWhitespace(spaced))

(***************************************************************************)
(* The names of the documented scenarios, and a name of quotes and         *)
(* whitespace only.                                                        *)
(***************************************************************************)
\* 'ABC Trucking LLC'
ABCTruckingLLC ==
    <<"A", "B", "C", " ", "T", "r", "u", "c", "k", "i", "n", "g", " ", "L", "L", "C">>

\* "Joe's Auto Repair"
JoesAutoRepair ==
    <<"J", "o", "e", "'", "s", " ", "A", "u", "t", "o", " ", "R", "e", "p", "a", "i", "r">>

\* 'Smith Freight Co'
SmithFreightCo ==
    <<"S", "m", "i", "t", "h", " ", "F", "r", "e", "i", "g", "h", "t", " ", "C", "o">>

\* 'Northern Hauling Ltd'
NorthernHaulingLtd ==
    <<"N", "o", "r", "t", "h", "e", "r", "n", " ", "H", "a", "u", "l", "i", "n", "g", " ", "L", "t", "d">>

\* '  Discount   Towing  '
DiscountTowing ==
    <<" ", " ", "D", "i", "s", "c", "o", "u", "n", "t", " ", " ", " ", "T", "o", "w", "i", "n", "g", " ", " ">>

\* 'Acme Logistics, LLC.'
AcmeLogisticsLLC ==
    <<"A", "c", "m", "e", " ", "L", "o", "g", "i", "s", "t", "i", "c", "s", ",", " ", "L", "L", "C", ".">>

\* '\' " '
QuotesOnly ==
    <<"'", " ", "\"", " ">>

ScenarioNames ==
    {ABCTruckingLLC, JoesAutoRepair, SmithFreightCo, NorthernHaulingLtd,
     DiscountTowing, AcmeLogisticsLLC, QuotesOnly}

\* the words the classifier's inputs are put together from
RelevanceWords ==
    {<<"J", "o", "e", "'", "s">>,
     <<" ">>,
     <<"A", "u", "t", "o">>,
     <<"R", "e", "p", "a", "i", "r">>,
     <<"T", "O", "W">>,
     <<"n">>,
     <<"T", "r", "u", "c", "k", "i", "n", "g">>,
     <<"C", "a", "r">>}

\* the characters clean_name's inputs are put together from
CleanAlphabet == {"a", "B", "'", "\"", " ", "\t", "U0130"}

\* the heads and tails normalize_for_matching's inputs are put together from
NormalizeHeads ==
    {<<"A", "c", "m", "e">>, <<" ">>, <<"a", ".", "b">>}

NormalizeTails ==
    {<<" ", "L", "L", "C">>,
     <<" ", "i", "n", "c">>,
     <<" ", "C", "o", "r", "p">>,
     <<" ", "l", "t", "d">>,
     <<" ", "c", "o">>,
     <<".">>,
     <<" ">>}

SeqsUpTo(S, n) == UNION {[1..k -> S] : k \in 0..n}

\* name, as is_truck_relevant may receive it
RelevanceInputs ==
    {None} \cup {Str(Flatten(ws)) : ws \in SeqsUpTo(RelevanceWords, MaxWords)}
           \cup {Str(s) : s \in ScenarioNames}

\* name, as clean_name may receive it
CleanInputs ==
    {None} \cup {Str(s) : s \in SeqsUpTo(CleanAlphabet, MaxLen)}
           \cup {Str(s) : s \in ScenarioNames}

\* name, as normalize_for_matching may receive it
NormalizeInputs ==
    {None} \cup {Str(h \o Flatten(ts)) : h \in NormalizeHeads \cup {<<>>},
                                         ts \in SeqsUpTo(NormalizeTails, MaxSuffixes)}
           \cup {Str(s) : s \in ScenarioNames}

(***************************************************************************)
(* DataFrames.  A frame is its set of columns and its rows in order; a row *)
(* carries its index label idx and one cell per column.  A cell of the     *)
(* addresses column is a list of addresses, None, or NaN (what pandas      *)
(* stores for a value that was never given).  A column the frame does not  *)
(* have holds placeholder cells, which no step reads.                          *)
(***************************************************************************)
Addrs(items) == [kind |-> "list", items |-> items]

NoAddrs == [kind |-> "None", items |-> <<>>]

NaN == [kind |-> "NaN", items |-> <<>>]

US == [country |-> "US"]

CA == [country |-> "CA"]

AllColumns == {"business_name", "confidence", "addresses"}

ColumnSets ==
    {AllColumns, AllColumns \ {"addresses"}, AllColumns \ {"business_name"},
     AllColumns \ {"confidence"}}

\* the records the input frames are put together from
RecordPool ==
    { [business_name |-> Str(ABCTruckingLLC),     confidence |-> 95, addresses |-> Addrs(<<>>)],
      [business_name |-> Str(JoesAutoRepair),     confidence |-> 95, addresses |-> Addrs(<<US>>)],
      [business_name |-> Str(SmithFreightCo),     confidence |-> 50, addresses |-> Addrs(<<>>)],
      [business_name |-> Str(NorthernHaulingLtd), confidence |-> 99, addresses |-> Addrs(<<CA>>)],
      [business_name |-> Str(DiscountTowing),     confidence |-> 91, addresses |-> Addrs(<<>>)],
      [business_name |-> Str(SmithFreightCo),     confidence |-> 90, addresses |-> Addrs(<<US, CA>>)],
      [business_name |-> Str(ABCTruckingLLC),     confidence |-> 95, addresses |-> Addrs(<<CA, US>>)],
      [business_name |-> None,                    confidence |-> 95, addresses |-> Addrs(<<US>>)],
      [business_name |-> Str(NorthernHaulingLtd), confidence |-> 95, addresses |-> NoAddrs],
      [business_name |-> Str(DiscountTowing),     confidence |-> 95, addresses |-> NaN],
      [business_name |-> Str(QuotesOnly),         confidence |-> 95, addresses |-> Addrs(<<US>>)] }

AbsentName == [kind |-> "absent", chars |-> <<>>]

AbsentAddrs == [kind |-> "absent", items |-> <<>>]

\* the rows of a frame with the given columns holding the given records, under
\* the default RangeIndex 0 .. n-1
Rows(columns, recs) ==
    [i \in DOMAIN recs |->
        [idx           |-> i - 1,
         business_name |-> IF "business_name" \in columns THEN recs[i].business_name ELSE AbsentName,
         confidence    |-> IF "confidence" \in columns THEN recs[i].confidence ELSE 0,
         addresses     |-> IF "addresses" \in columns THEN recs[i].addresses ELSE AbsentAddrs]]

Frames ==
    {[columns |-> c, rows |-> Rows(c, recs)] : c \in ColumnSets,
                                               recs \in SeqsUpTo(RecordPool, MaxRecords)}

Min(a, b) == IF a <= b THEN a ELSE b

\* df.iloc[start:end]
ILoc(rows, from, to) == SubSeq(rows, from + 1, to)

\* A variant whose chunk ends one row early.
ChunkEnd_OffByOne(from, chunk_size, length) == Min(from + chunk_size - 1, length)

\* min(start + chunk_size, len(df))
ChunkEnd(from, chunk_size, length) == Min(from + chunk_size, length)

(***************************************************************************)
(* How a call ended.                                                       *)
(***************************************************************************)
Unset == [status |-> "unset", error |-> "", rows |-> <<>>]

Returned(rows) == [status |-> "ok", error |-> "", rows |-> rows]

Raised(e) == [status |-> "error", error |-> e, rows |-> <<>>]

\* df[mask] with a boolean Series: the mask is aligned on the index labels.
\* Duplicate labels make the reindex a ValueError, a row without a mask entry
\* an IndexingError.
MaskLabels(mask) == [i \in DOMAIN mask |-> mask[i].idx]

BoolIndexError(rows, mask) ==
    IF \E i, j \in DOMAIN mask : i # j /\ mask[i].idx = mask[j].idx THEN "ValueError"
    ELSE IF \E i \in DOMAIN rows : rows[i].idx \notin Range(MaskLabels(mask))
    THEN "IndexingError"
    ELSE ""

BoolIndex(rows, mask) ==
    LET Kept(r) == \E i \in DOMAIN mask : mask[i].idx = r.idx /\ mask[i].val
    IN  SelectSeq(rows, Kept)

\* df[df["confidence"] >= CONFIDENCE_THRESHOLD]
ConfidenceFilter(rows) ==
    LET Kept(r) == r.confidence >= CONFIDENCE_THRESHOLD IN SelectSeq(rows, Kept)

\* chunk["business_name"].apply(is_truck_relevant)
RelevanceMask(chunk) ==
    [i \in DOMAIN chunk |-> [idx |-> chunk[i].idx, val |-> is_truck_relevant(chunk[i].business_name)]]

\* lambda x: x[0]["country"] == "US" if x else True.  NaN is truthy and cannot
\* be subscripted.
Truthy(x) == x.kind = "NaN" \/ (x.kind = "list" /\ x.items # <<>>)

LambdaRaises(x) == Truthy(x) /\ x.kind # "list"

LambdaValue(x) == IF Truthy(x) THEN x.items[1].country = "US" ELSE TRUE

\* chunk["addresses"].apply(lambda ...)
CountryMask(chunk) ==
    [i \in DOMAIN chunk |-> [idx |-> chunk[i].idx, val |-> LambdaValue(chunk[i].addresses)]]

\* chunk["business_name"] = chunk["business_name"].apply(clean_name)
CleanChunkRows(chunk) ==
    [i \in DOMAIN chunk |-> [chunk[i] EXCEPT !.business_name = clean_name(@)]]

\* pd.concat(cleaned_parts, ignore_index=True)
ConcatIgnoreIndex(chunks) ==
    LET rows == Flatten(chunks) IN [i \in DOMAIN rows |-> [rows[i] EXCEPT !.idx = i - 1]]

\* A variant that removes only the names that are not text.
DropEmpty_NotNaOnly(rows) ==
    LET Kept(r) == r.business_name # None IN SelectSeq(rows, Kept)

\* df[df["business_name"].notna() & (df["business_name"] != "")]
DropEmpty(rows) ==
    LET Kept(r) == r.business_name # None /\ r.business_name # Str(<<>>)
    IN  SelectSeq(rows, Kept)

\* A variant that does not test for the column.
CountryStageRuns_NoColumnTest(frame) == Len(frame.rows) > 0

\* "addresses" in df.columns and len(df) > 0
CountryStageRuns(frame) == "addresses" \in frame.columns /\ Len(frame.rows) > 0

(***************************************************************************)
(* Chunk sizes.  The code fixes them (10,000 / 5,000 / 10,000); the runs   *)
(* "one" and "len" are the same code with every chunk size set to 1, and   *)
(* to the length of the frame the function is called with.                 *)
(***************************************************************************)
RELEVANCE_CHUNK_SIZE == 10000

COUNTRY_CHUNK_SIZE == 5000

CLEAN_CHUNK_SIZE == 10000

Modes == <<"default", "one", "len">>

ChunkSize(m, default, frame) ==
    CASE m = "default" -> default
      [] m = "one"     -> 1
      [] m = "len"     -> Len(frame.rows)

EmptyFrame == [columns |-> {}, rows |-> <<>>]

NoResults == [m \in Range(Modes) |-> Unset]

ModeAfter(m) == Modes[1 + CHOOSE i \in DOMAIN Modes : Modes[i] = m]

(***************************************************************************)
(* filter_truck_businesses(df)                                             *)
(***************************************************************************)
FilterRaise(e) ==
    /\ fres' = [fres EXCEPT ![mode] = Raised(e)]
    /\ pc' = "done"
    /\ UNCHANGED <<df, start, parts, cres>>

FilterReturn(frame) ==
    /\ fres' = [fres EXCEPT ![mode] = Returned(frame.rows)]
    /\ pc' = "filtered"
    /\ df' = frame
    /\ UNCHANGED <<start, parts, cres>>

\* the call, the confidence stage and the range() of the relevance loop
FilterConfidence ==
    /\ pc = "call"
    /\ prog = "pipeline"
    /\ IF "confidence" \notin input.columns THEN FilterRaise("KeyError")
       ELSE IF ChunkSize(mode, RELEVANCE_CHUNK_SIZE, input) = 0 THEN FilterRaise("ValueError")
       ELSE /\ df' = [input EXCEPT !.rows = ConfidenceFilter(@)]
            /\ start' = 0
            /\ parts' = <<>>
            /\ pc' = "relevance"
            /\ UNCHANGED <<fres, cres>>
    /\ UNCHANGED <<textVars, input, prog, mode>>

\* one turn of the relevance loop
RelevanceChunk ==
    /\ pc = "relevance"
    /\ start < Len(df.rows)
    /\ LET chunk_size == ChunkSize(mode, RELEVANCE_CHUNK_SIZE, input)
           end        == ChunkEnd(start, chunk_size, Len(df.rows))
           chunk      == ILoc(df.rows, start, end)
       IN  IF "business_name" \notin df.columns THEN FilterRaise("KeyError")
           ELSE /\ parts' = Append(parts, RelevanceMask(chunk))
                /\ start' = start + chunk_size
                /\ UNCHANGED <<pc, df, fres, cres>>
    /\ UNCHANGED <<textVars, input, prog, mode>>

\* after the relevance loop: the concatenation of the masks, df[mask], and the
\* test that opens the country stage with the range() of its loop
RelevanceFilter ==
    /\ pc = "relevance"
    /\ start >= Len(df.rows)
    /\ IF parts = <<>> THEN FilterRaise("ValueError")
       ELSE LET mask     == Flatten(parts)
                filtered == [df EXCEPT !.rows = BoolIndex(@, mask)]
            IN  IF BoolIndexError(df.rows, mask) # ""
                THEN FilterRaise(BoolIndexError(df.rows, mask))
                ELSE IF ~CountryStageRuns(filtered) THEN FilterReturn(filtered)
                ELSE IF ChunkSize(mode, COUNTRY_CHUNK_SIZE, input) = 0
                THEN FilterRaise("ValueError")
                ELSE /\ df' = filtered
                     /\ start' = 0
                     /\ parts' = <<>>
                     /\ pc' = "country"
                     /\ UNCHANGED <<fres, cres>>
    /\ UNCHANGED <<textVars, input, prog, mode>>

\* one turn of the country loop
CountryChunk ==
    /\ pc = "country"
    /\ start < Len(df.rows)
    /\ LET chunk_size == ChunkSize(mode, COUNTRY_CHUNK_SIZE, input)
           end        == ChunkEnd(start, chunk_size, Len(df.rows))
           chunk      == ILoc(df.rows, start, end)
       IN  IF "addresses" \notin df.columns THEN FilterRaise("KeyError")
           ELSE IF \E i \in DOMAIN chunk : LambdaRaises(chunk[i].addresses)
           THEN FilterRaise("TypeError")
           ELSE /\ parts' = Append(parts, CountryMask(chunk))
                /\ start' = start + chunk_size
                /\ UNCHANGED <<pc, df, fres, cres>>
    /\ UNCHANGED <<textVars, input, prog, mode>>

\* after the country loop: the concatenation, df[us_mask] and the return
CountryFilter ==
    /\ pc = "country"
    /\ start >= Len(df.rows)
    /\ IF parts = <<>> THEN FilterRaise("ValueError")
       ELSE LET us_mask == Flatten(parts)
            IN  IF BoolIndexError(df.rows, us_mask) # ""
                THEN FilterRaise(BoolIndexError(df.rows, us_mask))
                ELSE FilterReturn([df EXCEPT !.rows = BoolIndex(@, us_mask)])
    /\ UNCHANGED <<textVars, input, prog, mode>>

(***************************************************************************)
(* clean_business_names(df)                                                *)
(***************************************************************************)
CleanRaise(e) ==
    /\ cres' = [cres EXCEPT ![mode] = Raised(e)]
    /\ pc' = "done"
    /\ UNCHANGED <<start, parts, fres>>

\* the call with the frame, and the range() of the loop
CleanEnter(frame) ==
    /\ df' = frame
    /\ IF ChunkSize(mode, CLEAN_CHUNK_SIZE, frame) = 0 THEN CleanRaise("ValueError")
       ELSE /\ start' = 0
            /\ parts' = <<>>
            /\ pc' = "clean"
            /\ UNCHANGED <<fres, cres>>
    /\ UNCHANGED <<textVars, input, prog, mode>>

\* the caller cleans the frame it was given
CleanInput ==
    /\ pc = "call"
    /\ prog = "clean"
    /\ CleanEnter(input)

\* the caller cleans what filter_truck_businesses returned
CleanFiltered ==
    /\ pc = "filtered"
    /\ CleanEnter(df)

\* one turn of the cleaning loop
CleanChunk ==
    /\ pc = "clean"
    /\ start < Len(df.rows)
    /\ LET chunk_size == ChunkSize(mode, CLEAN_CHUNK_SIZE, df)
           end        == ChunkEnd(start, chunk_size, Len(df.rows))
           chunk      == ILoc(df.rows, start, end)
       IN  IF "business_name" \notin df.columns THEN CleanRaise("KeyError") /\ UNCHANGED df
           ELSE /\ parts' = Append(parts, CleanChunkRows(chunk))
                /\ start' = start + chunk_size
                /\ UNCHANGED <<pc, df, fres, cres>>
    /\ UNCHANGED <<textVars, input, prog, mode>>

\* after the loop: the concatenation, the removal of empty names, the return
CleanReturn ==
    /\ pc = "clean"
    /\ start >= Len(df.rows)
    /\ IF parts = <<>> THEN CleanRaise("ValueError")
       ELSE /\ cres' = [cres EXCEPT ![mode] = Returned(DropEmpty(ConcatIgnoreIndex(parts)))]
            /\ pc' = "done"
            /\ UNCHANGED <<start, parts, fres>>
    /\ UNCHANGED <<textVars, input, prog, mode, df>>

\* the caller runs the same frame under the next chunk-size configuration
NextMode ==
    /\ pc = "done"
    /\ mode # Modes[Len(Modes)]
    /\ mode' = ModeAfter(mode)
    /\ pc' = "call"
    /\ df' = EmptyFrame
    /\ start' = 0
    /\ parts' = <<>>
    /\ UNCHANGED <<textVars, input, prog, fres, cres>>

Init ==
    /\ arg = None /\ ret = None /\ ret2 = None
    /\ input \in Frames
    /\ prog \in {"pipeline", "clean"}
    /\ mode = Modes[1]
    /\ pc = "call"
    /\ df = EmptyFrame
    /\ start = 0
    /\ parts = <<>>
    /\ fres = NoResults
    /\ cres = NoResults

Next ==
    \/ FilterConfidence
    \/ RelevanceChunk
    \/ RelevanceFilter
    \/ CountryChunk
    \/ CountryFilter
    \/ CleanInput
    \/ CleanFiltered
    \/ CleanChunk
    \/ CleanReturn
    \/ NextMode

Spec == Init /\ [][Next]_vars

(***************************************************************************)
(* The name functions on their own: the caller passes one name.            *)
(***************************************************************************)
TextInit(inputs, at) ==
    /\ arg \in inputs /\ ret = None /\ ret2 = None
    /\ input = EmptyFrame
    /\ prog = "text"
    /\ mode = Modes[1]
    /\ pc = at
    /\ df = EmptyFrame
    /\ start = 0
    /\ parts = <<>>
    /\ fres = NoResults
    /\ cres = NoResults

CallIsTruckRelevant ==
    /\ pc = "relevance_call"
    /\ ret' = is_truck_relevant(arg)
    /\ pc' = "relevance_returned"
    /\ UNCHANGED <<arg, ret2, input, prog, mode, df, start, parts, fres, cres>>

InitRelevance == TextInit(RelevanceInputs, "relevance_call")

SpecRelevance == InitRelevance /\ [][CallIsTruckRelevant]_vars

CallCleanName ==
    /\ pc = "clean_call"
    /\ ret' = clean_name(arg)
    /\ pc' = "cleaned"
    /\ UNCHANGED <<arg, ret2, input, prog, mode, df, start, parts, fres, cres>>

\* the caller cleans the cleaned name once more
CallCleanNameAgain ==
    /\ pc = "cleaned"
    /\ ret2' = clean_name(ret)
    /\ pc' = "recleaned"
    /\ UNCHANGED <<arg, ret, input, prog, mode, df, start, parts, fres, cres>>

InitClean == TextInit(CleanInputs, "clean_call")

NextClean == CallCleanName \/ CallCleanNameAgain

SpecClean == InitClean /\ [][NextClean]_vars

CallNormalizeForMatching ==
    /\ pc = "normalize_call"
    /\ ret' = Str(normalize_for_matching(arg))
    /\ pc' = "normalized"
    /\ UNCHANGED <<arg, ret2, input, prog, mode, df, start, parts, fres, cres>>

InitNormalize == TextInit(NormalizeInputs, "normalize_call")

SpecNormalize == InitNormalize /\ [][CallNormalizeForMatching]_vars

(***************************************************************************)
(* The checked properties.                                                 *)
(***************************************************************************)
\* kw occurs in s: some stretch of s, from i to j, is kw
Occurs(kw, s) == \E i \in 1..Len(s), j \in 1..Len(s) : SubSeq(s, i, j) = kw

HasExclusion(s) == \E k \in DOMAIN EXCLUDE_KEYWORDS : Occurs(EXCLUDE_KEYWORDS[k], s)

HasInclusion(s) == \E k \in DOMAIN TRUCK_KEYWORDS : Occurs(TRUCK_KEYWORDS[k], s)

\* C1: a text name whose lower-cased form contains an exclusion keyword is not
\* truck-relevant, whatever inclusion keywords it contains as well.
C1_ExclusionPrecedence ==
    (pc = "relevance_returned" /\ IsStr(arg) /\ HasExclusion(str_lower(arg.chars)))
        => ret = FALSE

\* C1's case: "Joe's Auto Repair", which holds "auto" and "repair", was classified.
C1_Witness ==
    /\ pc = "relevance_returned"
    /\ arg = Str(JoesAutoRepair)
    /\ HasExclusion(str_lower(arg.chars))
    /\ HasInclusion(str_lower(arg.chars))
    /\ ret = FALSE

\* the frame carries the three columns and every addresses cell is a list
WellFormed(frame) ==
    /\ frame.columns = AllColumns
    /\ \A i \in DOMAIN frame.rows : frame.rows[i].addresses.kind = "list"

FirstAddressUS(r) == r.addresses.items = <<>> \/ r.addresses.items[1].country = "US"

\* C2: for a well-formed frame, filter_truck_businesses returns exactly the rows,
\* in order, with confidence >= 0.9, a truck-relevant name and an empty address
\* list or a first address in the US.
C2_FilterIsExactSubsequence ==
    (WellFormed(input) /\ fres["default"] # Unset)
        => LET Kept(r) == /\ r.confidence >= 90
                          /\ is_truck_relevant(r.business_name)
                          /\ FirstAddressUS(r)
           IN  fres["default"] = Returned(SelectSeq(input.rows, Kept))

Labels(rows) == [i \in DOMAIN rows |-> rows[i].idx]

\* C3: the runs with chunk size 1 and with chunk size len(df) end as the run with
\* the default chunk sizes does (the same rows in the same order), and in every
\* loop the chunks taken so far are the rows before start, each once, in order.
C3_ChunkInvariance ==
    /\ (pc = "done" /\ mode = "len")
           => \A m \in Range(Modes) : fres[m] = fres["default"] /\ cres[m] = cres["default"]
    /\ pc \in {"relevance", "country", "clean"}
           => Labels(Flatten(parts)) = Labels(SubSeq(df.rows, 1, Min(start, Len(df.rows))))

\* C3's case: a frame of two rows that both survive went through the pipeline
\* under all three configurations, in two chunks under chunk size 1.
C3_Witness ==
    /\ pc = "done" /\ mode = "len" /\ prog = "pipeline"
    /\ Len(fres["default"].rows) = 2
    /\ cres["one"].status = "ok"
    /\ Len(cres["len"].rows) = 2

\* C4: the key of "Acme Logistics, LLC." is "acme logistics".
C4_SuffixBeforePunctuation ==
    (pc = "normalized" /\ arg = Str(AcmeLogisticsLLC))
        => ret = Str(<<"a", "c", "m", "e", " ", "l", "o", "g", "i", "s", "t", "i", "c", "s">>)

ScenarioOne ==
    /\ prog = "pipeline"
    /\ input = [columns |-> AllColumns,
                rows |-> Rows(AllColumns, <<[business_name |-> Str(ABCTruckingLLC),
                                             confidence |-> 95,
                                             addresses |-> Addrs(<<>>)]>>)]
    /\ mode = "default"
    /\ pc = "done"

ScenarioOneEndsWith(name) ==
    /\ fres["default"].status = "ok"
    /\ Len(fres["default"].rows) = 1
    /\ cres["default"].status = "ok"
    /\ Len(cres["default"].rows) = 1
    /\ cres["default"].rows[1].business_name = Str(name)

\* C5 as stated: "ABC Trucking LLC" at 0.95 without addresses is retained and its
\* cleaned name is "ABC TRUCKING LLC".
C5_CleanedNameUpperCase ==
    ScenarioOne => ScenarioOneEndsWith(<<"A", "B", "C", " ", "T", "R", "U", "C", "K", "I", "N", "G", " ", "L", "L", "C">>)

\* C5 as amended: "ABC Trucking LLC" at 0.95 without addresses is retained and
\* its cleaned name is the title-cased "Abc Trucking Llc".
C5_CleanedNameTitleCase ==
    ScenarioOne => ScenarioOneEndsWith(<<"A", "b", "c", " ", "T", "r", "u", "c", "k", "i", "n", "g", " ", "L", "l", "c">>)

\* C5's case: the scenario's frame was filtered and cleaned.
C5_Witness == ScenarioOne /\ cres["default"].status = "ok"

FinishKey(s) == str_strip(CollapseWhitespace(PunctuationToSpace(s)))

\* C6: when the lower-cased, trimmed name ends with a suffix of the list, the key
\* is that name without this one occurrence, punctuation and whitespace
\* normalised.
C6_ExactlyOneSuffix ==
    (pc = "normalized" /\ IsStr(arg))
        => LET lowered == str_strip(str_lower(arg.chars))
           IN  \A k \in DOMAIN SUFFIXES :
                   EndsWith(lowered, SUFFIXES[k])
                       => ret = Str(FinishKey(SubSeq(lowered, 1, Len(lowered) - Len(SUFFIXES[k]))))

\* C7: cleaning a cleaned name that is not all upper-case changes nothing.
C7_CleanNameIdempotent ==
    (pc = "recleaned" /\ IsStr(arg) /\ ~str_isupper(ret.chars)) => ret2 = ret

\* the frame clean_business_names was called with under configuration m
CleanedFrameRows(m) == IF prog = "clean" THEN input.rows ELSE fres[m].rows

HasVisibleName(r) ==
    /\ IsStr(r.business_name)
    /\ \E i \in DOMAIN r.business_name.chars :
           ~IsQuote(r.business_name.chars[i]) /\ ~IsSpace(r.business_name.chars[i])

OtherFields(rows) ==
    [i \in DOMAIN rows |-> [confidence |-> rows[i].confidence, addresses |-> rows[i].addresses]]

\* C8: what clean_business_names returns has no absent and no empty name, and its
\* rows are, in order and with their other fields unchanged, the rows whose name
\* is a text with a character other than quotes and whitespace.
C8_NoEmptyNames ==
    \A m \in Range(Modes) :
        cres[m].status = "ok"
            => /\ \A i \in DOMAIN cres[m].rows :
                      /\ IsStr(cres[m].rows[i].business_name)
                      /\ cres[m].rows[i].business_name.chars # <<>>
               /\ OtherFields(cres[m].rows)
                      = OtherFields(SelectSeq(CleanedFrameRows(m), HasVisibleName))

\* C8's case: of two rows cleaned, the one named with quotes and whitespace only
\* was dropped.
C8_Witness ==
    /\ prog = "clean"
    /\ Len(input.rows) = 2
    /\ input.rows[1].business_name = Str(QuotesOnly)
    /\ input.rows[2].business_name = Str(DiscountTowing)
    /\ cres["default"].status = "ok"
    /\ Len(cres["default"].rows) = 1

ReachesRelevance(r) == "confidence" \in input.columns /\ r.confidence >= 90

ReachesCountry(r) ==
    /\ ReachesRelevance(r)
    /\ "business_name" \in input.columns
    /\ is_truck_relevant(r.business_name)

NameMissing(r) == "business_name" \notin input.columns \/ ~IsStr(r.business_name)

AddressesMissing(r) == "addresses" \notin input.columns \/ r.addresses.kind # "list"

\* C9 as stated: a record that reaches the relevance stage without a name, or
\* the country stage without addresses, makes the call fail.
C9_MissingFieldIsError ==
    (/\ fres["default"] # Unset
     /\ \E i \in DOMAIN input.rows :
            \/ ReachesRelevance(input.rows[i]) /\ NameMissing(input.rows[i])
            \/ ReachesCountry(input.rows[i]) /\ AddressesMissing(input.rows[i]))
        => fres["default"].status = "error"

NaNReachesCountry ==
    /\ "addresses" \in input.columns
    /\ \E i \in DOMAIN input.rows :
           ReachesCountry(input.rows[i]) /\ input.rows[i].addresses.kind = "NaN"

\* C9 as amended (read when the run under the default chunk sizes has ended
\* the call, which is the code as written): the call fails exactly when the frame lacks the confidence or
\* the business_name column, when no record reaches the confidence threshold, or
\* when a record reaches the country stage with a NaN addresses cell.  Otherwise
\* it returns, in order, the records at or above the threshold with a
\* truck-relevant name (a record without a text name is dropped) whose
\* addresses column is absent, or whose addresses cell is None, an empty list
\* or a list with a first address in the US.
C9_MissingFieldPolicy ==
    (mode = "default" /\ fres["default"] # Unset)
        => LET failing == \/ "confidence" \notin input.columns
                          \/ "business_name" \notin input.columns
                          \/ \A i \in DOMAIN input.rows : input.rows[i].confidence < 90
                          \/ NaNReachesCountry
               Kept(r) == /\ ReachesCountry(r)
                          /\ \/ "addresses" \notin input.columns
                             \/ r.addresses.kind = "None"
                             \/ r.addresses.kind = "list" /\ FirstAddressUS(r)
           IN  IF failing THEN fres["default"].status = "error"
               ELSE fres["default"] = Returned(SelectSeq(input.rows, Kept))

\* C9's case: a record without a name reached the relevance stage and a record
\* with a None addresses cell reached the country stage, and the call returned.
C9_Witness ==
    /\ Len(input.rows) = 2
    /\ ReachesRelevance(input.rows[1]) /\ input.rows[1].business_name = None
    /\ ReachesCountry(input.rows[2]) /\ input.rows[2].addresses = NoAddrs
    /\ fres["default"].status = "ok"
    /\ Len(fres["default"].rows) = 1

\* C10: on a frame with the three columns in which no record reaches the
\* threshold (the empty frame among them) filter_truck_businesses returns the
\* empty frame, and clean_business_names returns the empty frame on the empty
\* frame.
C10_EmptyResultNotFailure ==
    /\ (/\ input.columns = AllColumns
        /\ \A i \in DOMAIN input.rows : input.rows[i].confidence < 90
        /\ fres["default"] # Unset)
           => fres["default"] = Returned(<<>>)
    /\ (/\ prog = "clean"
        /\ input.columns = AllColumns
        /\ input.rows = <<>>
        /\ cres["default"] # Unset)
           => cres["default"] = Returned(<<>>)

====
